---- MODULE Spec2Model ----
(***************************************************************************)
(* Schnorr proof of knowledge of a puzzle solution (src/src/lib.rs).       *)
(*                                                                         *)
(* The library is generic over a curve group G and a digest H.  The tests  *)
(* instantiate G with ark_bn254::G1Projective: the curve y^2 = x^3 + 3     *)
(* over a 254-bit prime field, of 254-bit prime order, with generator      *)
(* (1, 2), and H with SHA-256 (32 bytes).  254-bit integers are out of     *)
(* reach of explicit-state checking, so the model instantiates G with the  *)
(* same curve equation and the same generator over a 14-bit prime field:   *)
(* every width is scaled by 32 bytes -> 2 bytes, and the ratios            *)
(* modulus / 2^bits are those of BN254 (0.76).  Bytes stay 8 bits wide, so *)
(* the masks 0x3f and 0xff of the source are kept as written.              *)
(*                                                                         *)
(* H is a type parameter of every operation: the model treats it as a      *)
(* fixed but arbitrary function, revealed one query at a time (variable    *)
(* H maps each message hashed so far to its digest).                       *)
(***************************************************************************)
EXTENDS Integers, Sequences, FiniteSets, TLC

VARIABLES solutions, g, H, commitment, held, last, first

vars == <<solutions, g, H, commitment, held, last, first>>

(***************************************************************************)
(* The group G and its fields (type parameter G: Group + CurveGroup).      *)
(***************************************************************************)
\* Base field modulus p (G::BaseField), scaled to 14 bits.
P == 12547
\* Scalar field modulus r = group order (G::ScalarField), scaled to 14 bits.
ORDER == 12433
\* Serialized length in bytes of a field element (BN254: 32).
FieldBytes == 2
\* Digest length in bytes read by the challenge (source: bytes 0..31).
DigestLen == 2

\* The group identity (the point at infinity) and an affine point.
Infinity == [inf |-> TRUE, x |-> 0, y |-> 0]
Affine(x, y) == [inf |-> FALSE, x |-> x, y |-> y]

\* G::generator() of the tests: the point (1, 2).
G1 == Affine(1, 2)

RECURSIVE PowMod(_, _, _)
PowMod(b, e, m) ==
    IF e = 0 THEN 1
    ELSE LET h == PowMod(b, e \div 2, m)
             s == (h * h) % m
         IN  IF e % 2 = 1 THEN (s * (b % m)) % m ELSE s

\* Inverse in the base field (Fermat).
FInv(a) == PowMod(a, P - 2, P)

FSub(a, b) == (a + P - b) % P

\* Group law (G: Add) of y^2 = x^3 + 3, on affine representatives.
Add(p, q) ==
    IF p.inf THEN q
    ELSE IF q.inf THEN p
    ELSE IF p.x = q.x /\ (p.y + q.y) % P = 0 THEN Infinity
    ELSE LET lam == IF p.x = q.x
                    THEN (((3 * ((p.x * p.x) % P)) % P) * FInv((2 * p.y) % P)) % P
                    ELSE (FSub(q.y, p.y) * FInv(FSub(q.x, p.x))) % P
             x3  == FSub(FSub((lam * lam) % P, p.x), q.x)
             y3  == FSub((lam * FSub(p.x, x3)) % P, p.y)
         IN  Affine(x3, y3)

\* Scalar multiplication (Group::mul), double and add.
RECURSIVE Mul(_, _)
Mul(p, k) ==
    IF k = 0 \/ p.inf THEN Infinity
    ELSE LET h == Mul(p, k \div 2)
             d == Add(h, h)
         IN  IF k % 2 = 1 THEN Add(d, p) ELSE d


(***************************************************************************)
(* Bytes, strings and the digest H.                                        *)
(***************************************************************************)
\* Bounds of the inputs the model draws.
MaxScalar == 2
MaxQueries == 2
MaxStrings == 2
MaxChars == 2

RECURSIVE Pow256(_)
Pow256(n) == IF n = 0 THEN 1 ELSE 256 * Pow256(n - 1)

\* Little-endian bytes of v on n bytes (ark_serialize writes field elements
\* least significant byte first).
LEBytes(v, n) == [i \in 1..n |-> (v \div Pow256(i - 1)) % 256]

\* Big-endian bytes of v on n bytes.
BEBytes(v, n) == [i \in 1..n |-> (v \div Pow256(n - i)) % 256]

\* x.iter().rev()
Rev(s) == [i \in 1..Len(s) |-> s[Len(s) + 1 - i]]

\* The integer a byte string denotes, most significant byte first.
RECURSIVE BEInt(_)
BEInt(bytes) ==
    IF bytes = <<>> THEN 0
    ELSE BEInt(SubSeq(bytes, 1, Len(bytes) - 1)) * 256 + bytes[Len(bytes)]

\* PrimeField::from_be_bytes_mod_order on the scalar field.
from_be_bytes_mod_order(bytes) == BEInt(bytes) % ORDER

\* Digest values H may return: zero and all ones (the mask and the reduction
\* both act on it); for commitments also one and one past the modulus (the
\* reduction maps it to one).
DigestsOf(values) == {BEBytes(v, DigestLen) : v \in values}
Digests == DigestsOf({0, Pow256(DigestLen) - 1})
CommitDigests == Digests \cup DigestsOf({1, ORDER + 1})

ZeroDigest == BEBytes(0, DigestLen)

\* H as revealed so far is h; d is the digest H has for a message not yet
\* hashed.
Lookup(h, msg, d) == IF msg \in DOMAIN h THEN h[msg] ELSE d

Reveal(h, msgs, d) ==
    [m \in DOMAIN h \cup msgs |-> IF m \in DOMAIN h THEN h[m] ELSE d]

CanQuery(h, msgs) == Cardinality(DOMAIN h \cup msgs) <= MaxQueries

\* The digests to draw for a call that hashes msgs: one draw is enough when H
\* has already been revealed on them (or nothing is hashed).
FreshDigests(h, msgs, ds) == IF msgs \subseteq DOMAIN h THEN {ZeroDigest} ELSE ds

\* Digest: new / update / finalize.  The running state is the input so far.
HasherNew == <<>>
\* Faulty variant: each update is prefixed with its length, so the digest
\* would depend on how the text is split into strings.
HasherUpdate_prefixed(st, bytes) == st \o <<Len(bytes)>> \o bytes
HasherUpdate(st, bytes) == st \o bytes
HasherFinalize(st, h, d) == Lookup(h, st, d)

(***************************************************************************)
(* Serialization (lib.rs:125-152).                                         *)
(***************************************************************************)
InvalidData == "InvalidData"

Err(e) == [ok |-> FALSE, err |-> e]

serialize_scalar(z) == [ok |-> TRUE, bytes |-> LEBytes(z, FieldBytes)]

\* Faulty variant: the identity is encoded as (0, 0) instead of being refused.
serialize_point_zero(p) ==
    IF p.inf THEN [ok |-> TRUE, x |-> LEBytes(0, FieldBytes), y |-> LEBytes(0, FieldBytes)]
    ELSE [ok |-> TRUE, x |-> LEBytes(p.x, FieldBytes), y |-> LEBytes(p.y, FieldBytes)]

serialize_point(p) ==
    IF p.inf THEN Err(InvalidData)
    ELSE [ok |-> TRUE, x |-> LEBytes(p.x, FieldBytes), y |-> LEBytes(p.y, FieldBytes)]

(***************************************************************************)
(* Fiat-Shamir challenge (lib.rs:154-175).                                 *)
(***************************************************************************)
\* The loop over input_elements: each point's x then y, each reversed.
RECURSIVE element_bytes(_)
element_bytes(elements) ==
    IF elements = <<>> THEN [ok |-> TRUE, bytes |-> <<>>]
    ELSE LET rest == element_bytes(SubSeq(elements, 1, Len(elements) - 1))
             xy   == serialize_point(elements[Len(elements)])
         IN  IF ~rest.ok THEN rest
             ELSE IF ~xy.ok THEN Err(xy.err)
             ELSE [ok |-> TRUE, bytes |-> rest.bytes \o Rev(xy.x) \o Rev(xy.y)]

\* hash_254: the first byte masked with 0x3f, the others with 0xff.
hash_254(hash_out) ==
    [i \in 1..DigestLen |-> IF i = 1 THEN hash_out[1] % 64 ELSE hash_out[i] % 256]

compute_fiat_shamir_challenge(input_elements, h, d) ==
    LET eb == element_bytes(input_elements)
    IN  IF ~eb.ok THEN [ok |-> FALSE, err |-> eb.err, e |-> 0, masked |-> 0, msgs |-> {}]
        ELSE LET hash_out == HasherFinalize(HasherUpdate(HasherNew, eb.bytes), h, d)
                 masked   == hash_254(hash_out)
             IN  [ok |-> TRUE, err |-> "", msgs |-> {eb.bytes},
                  masked |-> BEInt(masked),
                  e |-> from_be_bytes_mod_order(masked)]

(***************************************************************************)
(* PuzzleSolution (lib.rs:22-70).                                          *)
(***************************************************************************)
\* String::as_bytes: a string is modelled as its UTF-8 bytes.
as_bytes(solution) == solution

\* Faulty variant: the hasher is created anew inside the loop, so only the
\* last string is hashed.
hash_solutions_last(sols) ==
    IF sols = <<>> THEN HasherNew
    ELSE HasherUpdate(HasherNew, as_bytes(sols[Len(sols)]))

\* The loop of get_solution_commitment: one running digest over all strings.
RECURSIVE hash_solutions(_)
hash_solutions(sols) ==
    IF sols = <<>> THEN HasherNew
    ELSE HasherUpdate(hash_solutions(SubSeq(sols, 1, Len(sols) - 1)),
                      as_bytes(sols[Len(sols)]))

get_solution_commitment(sols, gen, h, d) ==
    LET st      == hash_solutions(sols)
        w_bytes == HasherFinalize(st, h, d)
        w       == from_be_bytes_mod_order(w_bytes)
    IN  [w |-> w, W |-> Mul(gen, w), digest |-> w_bytes, msgs |-> {st}]

NoProof == [a |-> Infinity, z |-> 0]

\* Faulty variant: the opening is not checked.
opening_check_skipped(gen, w, solution_commitment) == TRUE

\* The opening check of get_solution_proof (lib.rs:50).
opening_check(gen, w, solution_commitment) == Mul(gen, w) = solution_commitment

\* Faulty variant: the challenge multiplies the blinding scalar, w + e*r.
response_swapped(w, e, r) == (w + e * r) % ORDER

\* The challenge response (lib.rs:66).
response(w, e, r) == (w * e + r) % ORDER

\* r is the blinding scalar the RNG yields if it is asked for one.
get_solution_proof(gen, w, solution_commitment, r, h, d) ==
    IF ~opening_check(gen, w, solution_commitment)
    THEN [ok |-> FALSE, err |-> InvalidData, proof |-> NoProof,
          drew |-> FALSE, e |-> 0, masked |-> 0, msgs |-> {}]
    ELSE LET a  == Mul(gen, r)
             ch == compute_fiat_shamir_challenge(<<gen, solution_commitment, a>>, h, d)
         IN  IF ~ch.ok
             THEN [ok |-> FALSE, err |-> ch.err, proof |-> NoProof,
                   drew |-> TRUE, e |-> 0, masked |-> 0, msgs |-> ch.msgs]
             ELSE [ok |-> TRUE, err |-> "",
                   proof |-> [a |-> a, z |-> response(w, ch.e, r)],
                   drew |-> TRUE, e |-> ch.e, masked |-> ch.masked, msgs |-> ch.msgs]

(***************************************************************************)
(* PuzzleSolutionProof (lib.rs:72-123).                                    *)
(***************************************************************************)
\* Faulty variant: the challenge multiplies the generator instead of the
\* commitment, A + g*e == g*z.
equation_generator(proof, gen, solution_commitment, e) ==
    Add(proof.a, Mul(gen, e)) = Mul(gen, proof.z)

\* The verification equation as the code evaluates it: lhs == rhs.
equation(proof, gen, solution_commitment, e) ==
    LET lhs == Add(proof.a, Mul(solution_commitment, e))
        rhs == Mul(gen, proof.z)
    IN  lhs = rhs

verify(proof, gen, solution_commitment, h, d) ==
    LET ch == compute_fiat_shamir_challenge(<<gen, solution_commitment, proof.a>>, h, d)
    IN  IF ~ch.ok
        THEN [ok |-> FALSE, err |-> ch.err, value |-> FALSE, e |-> 0, masked |-> 0,
              msgs |-> ch.msgs]
        ELSE [ok |-> TRUE, err |-> "",
              value |-> equation(proof, gen, solution_commitment, ch.e),
              e |-> ch.e, masked |-> ch.masked, msgs |-> ch.msgs]

NoExport == <<>>

\* The seven byte strings, in the order of the returned tuple.
export_tuple(proof, gen, solution_commitment) ==
    LET pa == serialize_point(proof.a)
        pg == serialize_point(gen)
        pw == serialize_point(solution_commitment)
        zb == serialize_scalar(proof.z)
    IN  IF ~pa.ok THEN [ok |-> FALSE, err |-> pa.err, out |-> NoExport]
        ELSE IF ~pg.ok THEN [ok |-> FALSE, err |-> pg.err, out |-> NoExport]
        ELSE IF ~pw.ok THEN [ok |-> FALSE, err |-> pw.err, out |-> NoExport]
        ELSE IF ~zb.ok THEN [ok |-> FALSE, err |-> zb.err, out |-> NoExport]
        ELSE [ok |-> TRUE, err |-> "",
              out |-> <<pa.x, pa.y, pg.x, pg.y, pw.x, pw.y, zb.bytes>>]

verify_and_export(proof, gen, solution_commitment, h, d) ==
    LET ch == compute_fiat_shamir_challenge(<<gen, solution_commitment, proof.a>>, h, d)
    IN  IF ~ch.ok
        THEN [ok |-> FALSE, err |-> ch.err, out |-> NoExport, checked |-> FALSE,
              e |-> 0, masked |-> 0, msgs |-> ch.msgs]
        ELSE IF equation(proof, gen, solution_commitment, ch.e)
        THEN LET ex == export_tuple(proof, gen, solution_commitment)
             IN  [ok |-> ex.ok, err |-> ex.err, out |-> ex.out, checked |-> TRUE,
                  e |-> ch.e, masked |-> ch.masked, msgs |-> ch.msgs]
        ELSE [ok |-> FALSE, err |-> InvalidData, out |-> NoExport, checked |-> TRUE,
              e |-> ch.e, masked |-> ch.masked, msgs |-> ch.msgs]

(***************************************************************************)
(* The state: two PuzzleSolution objects under one generator (the tests'   *)
(* puzzle_solution and wrong_puzzle_solution), what their caller holds     *)
(* (the commitments returned, the last proof returned and what it was      *)
(* asked for), the last call with its result, and the first verify call    *)
(* with its result.                                                        *)
(***************************************************************************)
Puzzles == 1..2

\* The characters 's' and 'S' of the tests' "solution1" / "Solution1".
Alphabet == {115, 83}

RECURSIVE SeqsUpTo(_, _)
SeqsUpTo(S, n) ==
    IF n = 0 THEN {<<>>}
    ELSE LET shorter == SeqsUpTo(S, n - 1)
         IN  shorter \cup {Append(q, c) : q \in shorter, c \in S}

\* The text a solution list hashes to, and its length.
RECURSIVE Concat(_)
Concat(sols) ==
    IF sols = <<>> THEN <<>>
    ELSE Concat(SubSeq(sols, 1, Len(sols) - 1)) \o sols[Len(sols)]

\* Solution lists of at most MaxStrings strings and MaxChars characters.
Strings == SeqsUpTo(Alphabet, MaxChars)
SolutionLists == {sols \in SeqsUpTo(Strings, MaxStrings) : Len(Concat(sols)) <= MaxChars}

\* t is s with a single character of one string altered.
OneCharAltered(s, t) ==
    /\ Len(s) = Len(t)
    /\ \E i \in 1..Len(s) :
        /\ \A j \in 1..Len(s) : j # i => s[j] = t[j]
        /\ Len(s[i]) = Len(t[i])
        /\ \E k \in 1..Len(s[i]) :
            /\ s[i][k] # t[i][k]
            /\ \A m \in 1..Len(s[i]) : m # k => s[i][m] = t[i][m]

\* The second lists a first list is compared with: itself, its one-character
\* alterations, and the lists of the same text split elsewhere.
Related(s) ==
    {t \in SolutionLists : t = s \/ OneCharAltered(s, t) \/ Concat(t) = Concat(s)}

NoCommitment == [set |-> FALSE, w |-> 0, W |-> Infinity, digest |-> <<>>]
NoHeld == [set |-> FALSE, proof |-> NoProof, w |-> 0, W |-> Infinity, e |-> 0]
NoCall == [op |-> "none"]
NoFirst == [set |-> FALSE]

Published == {commitment[i] : i \in {j \in Puzzles : commitment[j].set}}

Scalars == 0..MaxScalar
Points == {Mul(G1, k) : k \in Scalars}
\* The blinding scalars the RNG may yield: zero and a non-zero scalar.
Blinds == {0, 1}
\* A forged proof: the identity with response 0, and (g, 1).
Forged == {[a |-> Mul(G1, k), z |-> k] : k \in 0..1}
Held == IF held.set THEN {held.proof} ELSE {}

GetSolutionCommitment(i, ds) ==
    LET msgs == {hash_solutions(solutions[i])}
    IN  /\ CanQuery(H, msgs)
        /\ \E d \in FreshDigests(H, msgs, ds) :
            LET res == get_solution_commitment(solutions[i], g, H, d)
            IN  /\ H' = Reveal(H, res.msgs, d)
                /\ commitment' = [commitment EXCEPT ![i] =
                       [set |-> TRUE, w |-> res.w, W |-> res.W, digest |-> res.digest]]
                /\ last' = [op |-> "get_solution_commitment", puzzle |-> i,
                            w |-> res.w, W |-> res.W]
                /\ UNCHANGED <<solutions, g, held, first>>

\* get_solution_proof called with an opening from ws x Ws, the RNG yielding
\* a scalar of rs.
GetSolutionProof(ws, Ws, rs, ds) ==
    \E w \in ws, Wc \in Ws, r \in rs :
        LET msgs == get_solution_proof(g, w, Wc, r, H, ZeroDigest).msgs
        IN  /\ CanQuery(H, msgs)
            /\ \E d \in FreshDigests(H, msgs, ds) :
                LET res == get_solution_proof(g, w, Wc, r, H, d)
                IN  /\ H' = Reveal(H, res.msgs, d)
                    /\ held' = IF res.ok
                               THEN [set |-> TRUE, proof |-> res.proof, w |-> w, W |-> Wc,
                                     e |-> res.e]
                               ELSE held
                    /\ last' = [op |-> "get_solution_proof", w |-> w, W |-> Wc,
                                r |-> IF res.drew THEN r ELSE 0,
                                ok |-> res.ok, err |-> res.err, proof |-> res.proof,
                                drew |-> res.drew, hashed |-> res.msgs # {},
                                masked |-> res.masked]
                    /\ UNCHANGED <<solutions, g, commitment, first>>

\* verify called on a proof of ps with a generator of gs and a commitment of
\* Ws; the caller notes its first call when log is set.
Verify(ps, gs, Ws, ds, log) ==
    \E proof \in ps, gen \in gs, Wc \in Ws :
        LET msgs == compute_fiat_shamir_challenge(<<gen, Wc, proof.a>>, H, ZeroDigest).msgs
        IN  /\ CanQuery(H, msgs)
            /\ \E d \in FreshDigests(H, msgs, ds) :
                LET res  == verify(proof, gen, Wc, H, d)
                    call == [op |-> "verify", proof |-> proof, g |-> gen, W |-> Wc,
                             ok |-> res.ok, err |-> res.err, value |-> res.value,
                             e |-> res.e, hashed |-> res.msgs # {}, masked |-> res.masked]
                IN  /\ H' = Reveal(H, res.msgs, d)
                    /\ last' = call
                    /\ first' = IF log /\ ~first.set
                                THEN [set |-> TRUE, call |-> call, proved |-> held.set]
                                ELSE first
                    /\ UNCHANGED <<solutions, g, commitment, held>>

\* Faulty variant: the export takes the proof from the caller.
VerifyAndExport_consuming(ps, gs, Ws, ds) ==
    \E proof \in ps, gen \in gs, Wc \in Ws :
        LET msgs == compute_fiat_shamir_challenge(<<gen, Wc, proof.a>>, H, ZeroDigest).msgs
        IN  /\ CanQuery(H, msgs)
            /\ \E d \in FreshDigests(H, msgs, ds) :
                LET res == verify_and_export(proof, gen, Wc, H, d)
                IN  /\ H' = Reveal(H, res.msgs, d)
                    /\ last' = [op |-> "verify_and_export", proof |-> proof, g |-> gen,
                                W |-> Wc, ok |-> res.ok, err |-> res.err, out |-> res.out,
                                checked |-> res.checked, e |-> res.e,
                                hashed |-> res.msgs # {}, masked |-> res.masked]
                    /\ held' = NoHeld
                    /\ UNCHANGED <<solutions, g, commitment, first>>

VerifyAndExport(ps, gs, Ws, ds) ==
    \E proof \in ps, gen \in gs, Wc \in Ws :
        LET msgs == compute_fiat_shamir_challenge(<<gen, Wc, proof.a>>, H, ZeroDigest).msgs
        IN  /\ CanQuery(H, msgs)
            /\ \E d \in FreshDigests(H, msgs, ds) :
                LET res == verify_and_export(proof, gen, Wc, H, d)
                IN  /\ H' = Reveal(H, res.msgs, d)
                    /\ last' = [op |-> "verify_and_export", proof |-> proof, g |-> gen,
                                W |-> Wc, ok |-> res.ok, err |-> res.err, out |-> res.out,
                                checked |-> res.checked, e |-> res.e,
                                hashed |-> res.msgs # {}, masked |-> res.masked]
                    /\ UNCHANGED <<solutions, g, commitment, held, first>>

\* PuzzleSolution::new for both objects of the tests: "s" and "S".
Init ==
    /\ solutions = << <<(<<115>>)>>, <<(<<83>>)>> >>
    /\ g = G1
    /\ H = <<>>
    /\ commitment = [i \in Puzzles |-> NoCommitment]
    /\ held = NoHeld
    /\ last = NoCall
    /\ first = NoFirst

\* Arbitrary callers: any opening, any blinding scalar, forged proofs, the
\* identity as generator or commitment.
Next ==
    \/ GetSolutionProof(Scalars, Points, Blinds, Digests)
    \/ Verify(Held \cup Forged, {g, Infinity}, Points, Digests, FALSE)
    \/ VerifyAndExport(Held \cup Forged, {g}, Points, Digests)

Spec == Init /\ [][Next]_vars

\* Commitments of two solution lists under one generator and one digest.
InitCommit ==
    /\ solutions \in {<<s, t>> : s \in SolutionLists, t \in SolutionLists}
    /\ solutions[2] \in Related(solutions[1])
    /\ g = G1
    /\ H = <<>>
    /\ commitment = [i \in Puzzles |-> NoCommitment]
    /\ held = NoHeld
    /\ last = NoCall
    /\ first = NoFirst

NextCommit == \E i \in Puzzles : GetSolutionCommitment(i, CommitDigests)

SpecCommit == InitCommit /\ [][NextCommit]_vars

\* The protocol as its tests run it: commit, prove the commitment's opening,
\* verify and export, in any order and any number of times; the caller notes
\* its first verify call.
Opening == {commitment[1]} \cap Published
Blinded == Blinds \ {0}

NextLog ==
    \/ GetSolutionCommitment(1, Digests)
    \/ GetSolutionProof({c.w : c \in Opening}, {c.W : c \in Opening}, Blinded, Digests)
    \/ Verify(Held \cup Forged, {g}, {c.W : c \in Opening} \cup Points, Digests, TRUE)
    \/ VerifyAndExport(Held, {g}, {c.W : c \in Opening} \cup {G1}, Digests)

SpecLog == Init /\ [][NextLog]_vars

(***************************************************************************)
(* Properties.                                                             *)
(***************************************************************************)
IsProve == last.op = "get_solution_proof"
IsVerify == last.op = "verify"
IsExport == last.op = "verify_and_export"

\* The last call verified the proof the caller holds, under the generator it
\* was made with.
VerifiedHeld == IsVerify /\ held.set /\ last.proof = held.proof /\ last.g = g

\* The equation of the specification, g*z == A + W*e, on the last call.
EquationHolds == Mul(last.g, last.proof.z) = Add(last.proof.a, Mul(last.W, last.e))

\* C1 as stated: whenever W = g*w, for every w and every blinding scalar (0
\* included), get_solution_proof returns a proof, and verify on that proof
\* with the same g and W returns true.
C1_Completeness ==
    /\ IsProve /\ Mul(g, last.w) = last.W => last.ok
    /\ VerifiedHeld /\ last.W = held.W => last.ok /\ last.value

\* C1 amended: whenever W = g*w, get_solution_proof returns a proof exactly
\* when w # 0 and the blinding scalar drawn is # 0 (otherwise W or A is the
\* identity and the call ends with the serialization error, after the draw);
\* verify on a returned proof with the same g and W returns true.
C1_CompletenessNonZero ==
    /\ IsProve /\ Mul(g, last.w) = last.W =>
        /\ last.ok <=> (last.w # 0 /\ last.r # 0)
        /\ ~last.ok => last.err = InvalidData /\ last.drew /\ last.proof = NoProof
        /\ last.ok => last.proof.a = Mul(g, last.r)
    /\ VerifiedHeld /\ last.W = held.W => last.ok /\ last.value

C1_Witness ==
    /\ VerifiedHeld /\ last.W = held.W /\ last.value
    /\ held.w > 1 /\ last.e > 1

\* C2 as stated: a proof made for the opening of W2 never verifies against a
\* different commitment W1 under the same g.
C2_Soundness ==
    VerifiedHeld /\ last.W # held.W => ~(last.ok /\ last.value)

\* C2 amended: a proof made for W2 = g*w2 verifies against W1 = g*w1 # W2
\* exactly when W1 is not the identity and w1*e1 = w2*e2 (mod r), e1 and e2
\* being the challenges of the two transcripts; otherwise verify returns
\* false (or the serialization error when W1 is the identity).
C2_SoundnessUpToChallenge ==
    VerifiedHeld /\ last.W # held.W =>
        ((last.ok /\ last.value) <=>
            /\ ~last.W.inf
            /\ \E w1 \in Scalars :
                /\ Mul(g, w1) = last.W
                /\ (w1 * last.e) % ORDER = (held.w * held.e) % ORDER)

C2_Witness ==
    /\ VerifiedHeld /\ last.W # held.W
    /\ last.ok /\ ~last.value /\ last.e # 0 /\ held.e # 0

C4_InvalidProofDistinct ==
    IsExport /\ last.checked /\ ~EquationHolds =>
        /\ ~last.ok /\ last.out = NoExport
        /\ last.err # serialize_point(Infinity).err

C6_ExportBigEndian ==
    IsExport /\ last.ok =>
        last.out = <<BEBytes(last.proof.a.x, FieldBytes), BEBytes(last.proof.a.y, FieldBytes),
                     BEBytes(last.g.x, FieldBytes), BEBytes(last.g.y, FieldBytes),
                     BEBytes(last.W.x, FieldBytes), BEBytes(last.W.y, FieldBytes),
                     BEBytes(last.proof.z, FieldBytes)>>

Both == commitment[1].set /\ commitment[2].set
DigestMod(i) == BEInt(commitment[i].digest) % ORDER

\* C7 as stated: altering a single character of one string changes W.
C7_Sensitivity ==
    Both /\ OneCharAltered(solutions[1], solutions[2]) =>
        commitment[1].W # commitment[2].W

\* C7 amended: altering a single character of one string changes the text
\* hashed, and changes W exactly when the two digests differ modulo r.
C7_SensitivityUpToDigest ==
    Both /\ OneCharAltered(solutions[1], solutions[2]) =>
        /\ Concat(solutions[1]) # Concat(solutions[2])
        /\ {Concat(solutions[1]), Concat(solutions[2])} \subseteq DOMAIN H
        /\ commitment[1].W # commitment[2].W <=> DigestMod(1) # DigestMod(2)

C7_Witness ==
    /\ Both /\ OneCharAltered(solutions[1], solutions[2])
    /\ commitment[1].W # commitment[2].W
    /\ commitment[1].digest # commitment[2].digest

C9_MaskBelowModulus ==
    (IsProve \/ IsVerify \/ IsExport) /\ last.hashed => last.masked < ORDER

SameCall(c, d) == c.proof = d.proof /\ c.g = d.g /\ c.W = d.W
SameOutcome(c, d) == c.ok = d.ok /\ c.err = d.err /\ c.value = d.value

\* C10: no call changes a solution list, g, a commitment already returned or
\* (verify, verify_and_export, get_solution_commitment) the proof the caller
\* holds; and a verify call returns what the first verify call with the same
\* proof, g and W returned, whatever was called in between.
C10_Stateless ==
    [][/\ solutions' = solutions /\ g' = g
       /\ \A i \in Puzzles : commitment[i].set => commitment'[i] = commitment[i]
       /\ last'.op # "get_solution_proof" => held' = held
       /\ first.set => first' = first
       /\ (last'.op = "verify" /\ first.set /\ SameCall(last', first.call)) =>
            SameOutcome(last', first.call)]_vars

C10_Witness ==
    /\ IsVerify /\ first.set /\ SameCall(last, first.call)
    /\ ~first.proved /\ held.set /\ last.ok /\ ~last.value
====
